---- MODULE Spec2Model ----
(***************************************************************************)
(* Tic-tac-toe: the board (src/src/board.rs) and the turn loop             *)
(* (src/src/game.rs).  A board is tiles[r][c] with r, c in 0..2; a move is *)
(* a pair <<row, column>> of naturals (Rust [usize; 2]).                    *)
(***************************************************************************)
EXTENDS Naturals, Integers, Sequences, FiniteSets, TLC

VARIABLES
    tiles,        \* Board.tiles
    player_turn,  \* start: the active player
    pc,           \* start: "AwaitingInput" at the blocking read, "Finished" after break
    shown,        \* the board text most recently printed to stdout
    prompted,     \* the name in the most recently printed prompt
    announced,    \* the player named by "The winner is: ...", if printed
    last,         \* outcome of the most recently read line
    accepted,     \* history: the accepted moves, as [player, player_move]
    nAccepted,    \* history: how many moves were accepted
    stdin,        \* "open", or "eof" once a read has met the end of input
    main,         \* main.rs start_game reading the same input: its locals
    call          \* the board operation a direct caller has made

vars == <<tiles, player_turn, pc, shown, prompted, announced, last,
          accepted, nAccepted, stdin, main, call>>

gameVars == <<player_turn, pc, shown, prompted, announced, last,
              accepted, nAccepted, stdin, main>>

(* Largest coordinate a caller or a typed line names (the grid ends at 2). *)
MaxCoord == 3

Symbol == {"Empty", "Plus", "Circle"}

Idx == 0..2

Coords == 0..MaxCoord

NoneVal == [tag |-> "None"]

Some(x) == [tag |-> "Some", val |-> x]

OkTrue == [tag |-> "Ok", val |-> TRUE]

OutsideBoard == [tag |-> "Err", kind |-> "OutsideBoard",
                 msg |-> "The move is invalid because it is outside the board."]

FilledPosition == [tag |-> "Err", kind |-> "FilledPosition",
                   msg |-> "The position is already filled."]

(* Board::new *)
Board_new == [r \in Idx |-> [c \in Idx |-> "Empty"]]

AllBoards == [Idx -> [Idx -> Symbol]]

(* place with row and column swapped in the index. *)
place_transposed(board, symbol, player_move) ==
    [board EXCEPT ![player_move[2]][player_move[1]] = symbol]

(* Board::place: an unchecked write of one cell. *)
place(board, symbol, player_move) ==
    [board EXCEPT ![player_move[1]][player_move[2]] = symbol]

(* is_valid_move with the bound test off by one (>= 2 for > 2). *)
is_valid_move_offbyone(board, player_move) ==
    IF player_move[1] >= 2 \/ player_move[2] >= 2
    THEN OutsideBoard
    ELSE IF board[player_move[1]][player_move[2]] # "Empty"
         THEN FilledPosition
         ELSE OkTrue

(* is_valid_move with the two error kinds exchanged. *)
is_valid_move_swapped(board, player_move) ==
    IF player_move[1] > 2 \/ player_move[2] > 2
    THEN FilledPosition
    ELSE IF board[player_move[1]][player_move[2]] # "Empty"
         THEN OutsideBoard
         ELSE OkTrue

(* is_valid_move whose occupancy test only recognises Plus. *)
is_valid_move_plusonly(board, player_move) ==
    IF player_move[1] > 2 \/ player_move[2] > 2
    THEN OutsideBoard
    ELSE IF board[player_move[1]][player_move[2]] = "Plus"
         THEN FilledPosition
         ELSE OkTrue

(* is_valid_move without the bounds test. *)
is_valid_move_nobounds(board, player_move) ==
    IF /\ player_move[1] <= 2
       /\ player_move[2] <= 2
       /\ board[player_move[1]][player_move[2]] # "Empty"
    THEN FilledPosition
    ELSE OkTrue

(* is_valid_move without the occupancy test. *)
is_valid_move_nofill(board, player_move) ==
    IF player_move[1] > 2 \/ player_move[2] > 2
    THEN OutsideBoard
    ELSE OkTrue

(* Board::is_valid_move: bounds first, then occupancy. *)
is_valid_move(board, player_move) ==
    IF player_move[1] > 2 \/ player_move[2] > 2
    THEN OutsideBoard
    ELSE IF board[player_move[1]][player_move[2]] # "Empty"
         THEN FilledPosition
         ELSE OkTrue

(* The row/column pass without the "Empty cannot be a winner" tests. *)
RowColWinner_noempty(board_state, i) ==
    IF /\ board_state[i][0] = board_state[i][1]
       /\ board_state[i][0] = board_state[i][2]
    THEN Some(board_state[i][0])
    ELSE IF /\ board_state[0][i] = board_state[1][i]
            /\ board_state[0][i] = board_state[2][i]
         THEN Some(board_state[0][i])
         ELSE NoneVal

(* The row/column pass without the column test. *)
RowColWinner_rowonly(board_state, i) ==
    IF /\ board_state[i][0] = board_state[i][1]
       /\ board_state[i][0] = board_state[i][2]
       /\ board_state[i][0] # "Empty"
    THEN Some(board_state[i][0])
    ELSE NoneVal

(* One pass of the row/column loop of Board::winner for index i. *)
RowColWinner(board_state, i) ==
    IF /\ board_state[i][0] = board_state[i][1]
       /\ board_state[i][0] = board_state[i][2]
       /\ board_state[i][0] # "Empty"
    THEN Some(board_state[i][0])
    ELSE IF /\ board_state[0][i] = board_state[1][i]
            /\ board_state[0][i] = board_state[2][i]
            /\ board_state[0][i] # "Empty"
         THEN Some(board_state[0][i])
         ELSE NoneVal

(* The diagonal checks without the right-to-left one. *)
DiagWinner_leftonly(board_state) ==
    IF /\ board_state[0][0] # "Empty"
       /\ board_state[0][0] = board_state[1][1]
       /\ board_state[0][0] = board_state[2][2]
    THEN Some(board_state[0][0])
    ELSE NoneVal

(* The two diagonal checks that follow the loop. *)
DiagWinner(board_state) ==
    IF /\ board_state[0][0] # "Empty"
       /\ board_state[0][0] = board_state[1][1]
       /\ board_state[0][0] = board_state[2][2]
    THEN Some(board_state[0][0])
    ELSE IF /\ board_state[0][2] # "Empty"
            /\ board_state[0][2] = board_state[1][1]
            /\ board_state[0][2] = board_state[2][0]
         THEN Some(board_state[0][2])
         ELSE NoneVal

RECURSIVE WinnerFrom(_, _)
WinnerFrom(board_state, i) ==
    IF i >= 3
    THEN DiagWinner(board_state)
    ELSE IF RowColWinner(board_state, i) # NoneVal
         THEN RowColWinner(board_state, i)
         ELSE WinnerFrom(board_state, i + 1)

(* winner with the loop running from index 2 down to 0. *)
RECURSIVE WinnerDownFrom(_, _)
WinnerDownFrom(board_state, i) ==
    IF i < 0
    THEN DiagWinner(board_state)
    ELSE IF RowColWinner(board_state, i) # NoneVal
         THEN RowColWinner(board_state, i)
         ELSE WinnerDownFrom(board_state, i - 1)

winner_downwards(board) == WinnerDownFrom(board, 2)

(* Board::winner *)
winner(board) == WinnerFrom(board, 0)

---------------------------------------------------------------------------------------------------------------------------------------------------
(* Text: a string is a sequence of one-character strings.                   *)

(* From<Symbol> for &str with Circle drawn as Plus. *)
SymbolStr_circleasplus(val) ==
    CASE val = "Empty" -> "-"
      [] val = "Plus" -> "+"
      [] val = "Circle" -> "+"

(* impl From<Symbol> for &str *)
SymbolStr(val) ==
    CASE val = "Empty" -> "-"
      [] val = "Plus" -> "+"
      [] val = "Circle" -> "o"

RECURSIVE join(_, _)
join(parts, sep) ==
    IF Len(parts) = 0 THEN <<>>
    ELSE IF Len(parts) = 1 THEN parts[1]
    ELSE parts[1] \o sep \o join(Tail(parts), sep)

(* impl Display for Board *)
fmt(board) ==
    join([r \in 1..3 |->
            <<"|", " ">>
            \o join([c \in 1..3 |-> <<SymbolStr(board[r - 1][c - 1])>>],
                    <<" ", "|", " ">>)
            \o <<" ", "|">>],
         <<"\n">>)

Player == {"One", "Two"}

(* impl Display for Player *)
PlayerName(p) == IF p = "One" THEN "Player 1" ELSE "Player 2"

(* From<Player> for Symbol with the two arms exchanged. *)
PlayerSymbol_swapped(val) == IF val = "One" THEN "Circle" ELSE "Plus"

(* impl From<Player> for Symbol *)
PlayerSymbol(val) == IF val = "One" THEN "Plus" ELSE "Circle"

(* The turn match with a second arm that does not flip. *)
NextPlayer_stuck(p) == "Two"

(* start: the match that alternates player_turn *)
NextPlayer(p) == IF p = "One" THEN "Two" ELSE "One"

DigitChars == <<"0", "1", "2", "3", "4", "5", "6", "7", "8", "9">>

(* char::to_digit(10) *)
to_digit(ch) ==
    IF \E i \in 1..10 : DigitChars[i] = ch
    THEN Some((CHOOSE i \in 1..10 : DigitChars[i] = ch) - 1)
    ELSE NoneVal

(* char::is_whitespace, on the characters used here *)
WhiteSpace == {" ", "\t", "\n", "\r"}

RECURSIVE trim_start(_)
trim_start(s) ==
    IF Len(s) > 0 /\ s[1] \in WhiteSpace THEN trim_start(Tail(s)) ELSE s

RECURSIVE trim_end(_)
trim_end(s) ==
    IF Len(s) > 0 /\ s[Len(s)] \in WhiteSpace
    THEN trim_end(SubSeq(s, 1, Len(s) - 1))
    ELSE s

(* trim that strips the front only. *)
trim_startonly(s) == trim_start(s)

(* str::trim *)
trim(s) == trim_end(trim_start(s))

(* str::split(',') collected: one segment more than there are commas. *)
RECURSIVE split(_, _)
split(s, sep) ==
    IF \E i \in 1..Len(s) : s[i] = sep
    THEN LET i == CHOOSE k \in 1..Len(s) :
                     s[k] = sep /\ \A j \in 1..(k - 1) : s[j] # sep
         IN <<SubSeq(s, 1, i - 1)>> \o split(SubSeq(s, i + 1, Len(s)), sep)
    ELSE <<s>>

InvalidFormat == [tag |-> "Err", kind |-> "InvalidFormat",
                  msg |-> "Invalid format"]

Ok(x) == [tag |-> "Ok", val |-> x]

(* A panic: an unwrap of None or an array index out of bounds. *)
Panic == [tag |-> "Panic"]

(* Characters whose UTF-8 encoding is longer than one byte. *)
MultiByte == {"U+00E9"}

(* str::len: the length in bytes. *)
RECURSIVE str_len(_)
str_len(s) ==
    IF Len(s) = 0 THEN 0
    ELSE (IF s[1] \in MultiByte THEN 2 ELSE 1) + str_len(Tail(s))

(* str::chars().next() *)
first_char(s) == IF Len(s) = 0 THEN NoneVal ELSE Some(s[1])

(* game::parse_player_move; the two unwraps of chars().next() panic on an
   empty segment. *)
parse_player_move(player_move) ==
    LET positions == [k \in 1..Len(split(player_move, ",")) |->
                         trim(split(player_move, ",")[k])]
    IN IF Len(positions) # 2 THEN InvalidFormat
       ELSE IF \E k \in 1..2 : str_len(positions[k]) # 1 THEN InvalidFormat
       ELSE IF first_char(positions[1]) = NoneVal THEN Panic
       ELSE IF to_digit(first_char(positions[1]).val) = NoneVal THEN InvalidFormat
       ELSE IF first_char(positions[2]) = NoneVal THEN Panic
       ELSE IF to_digit(first_char(positions[2]).val) = NoneVal THEN InvalidFormat
       ELSE Ok(<<to_digit(first_char(positions[1]).val).val,
                 to_digit(first_char(positions[2]).val).val>>)

(* main.rs: PlayerMoveError::InvalidFormat with the given text. *)
MainInvalidFormat(msg) == [tag |-> "Err", kind |-> "InvalidFormat", msg |-> msg]

(* main.rs parse_player_move: the same steps, each error arm with its own
   string literal. *)
main_parse_player_move(player_move) ==
    LET positions == [k \in 1..Len(split(player_move, ",")) |->
                         trim(split(player_move, ",")[k])]
    IN IF Len(positions) # 2 THEN MainInvalidFormat("Invalid format")
       ELSE IF \E k \in 1..2 : str_len(positions[k]) # 1
            THEN MainInvalidFormat("Invalid format")
       ELSE IF first_char(positions[1]) = NoneVal THEN Panic
       ELSE IF to_digit(first_char(positions[1]).val) = NoneVal
            THEN MainInvalidFormat("Invalid format")
       ELSE IF first_char(positions[2]) = NoneVal THEN Panic
       ELSE IF to_digit(first_char(positions[2]).val) = NoneVal
            THEN MainInvalidFormat("Invalid format.")
       ELSE Ok(<<to_digit(first_char(positions[1]).val).val,
                 to_digit(first_char(positions[2]).val).val>>)

(* Stdin::read_line on an open stream: the typed text and its newline. *)
read_line(typed) == typed \o <<"\n">>

(* The lines a player types: every "r,c" with digits up to MaxCoord, and
   the malformed and padded lines of the repository's tests. *)
CoordLines ==
    {<<DigitChars[r + 1], ",", DigitChars[c + 1]>> : r \in Coords, c \in Coords}

OtherLines ==
    { <<>>,
      <<",", "1">>,
      <<"2", ",">>,
      <<"3", "0">>,
      <<"a", ",", "b">>,
      <<"1", ",", "1", ",", "1">>,
      <<"0", " ", ",", " ", "0">>,
      <<"2", " ", ",", "0">> }

TypedLines == CoordLines \cup OtherLines

ParseOf == [typed \in TypedLines |-> parse_player_move(read_line(typed))]

----------------------------------------------------------------------------
(* main.rs: the free functions and start_game.  The record main holds the  *)
(* locals of start_game at its blocking read_line or after its loop.       *)

(* main.rs is_valid_move *)
main_is_valid_move(player_move, board) ==
    IF player_move[1] > 2 \/ player_move[2] > 2
    THEN [tag |-> "Err", kind |-> "OutsideBoard",
          msg |-> "The move is invalid because it is outside the board."]
    ELSE IF board[player_move[1]][player_move[2]] # "Empty"
         THEN [tag |-> "Err", kind |-> "FilledPosition",
               msg |-> "The position is already filled."]
         ELSE OkTrue

(* place_on_board that returns the clone without the write. *)
place_on_board_unwritten(symbol, player_move, board) == board

(* main.rs place_on_board: clone the board, write one cell of the clone,
   return the clone. *)
place_on_board(symbol, player_move, board) ==
    [board EXCEPT ![player_move[1]][player_move[2]] = symbol]

(* main.rs find_winner: the loop over i = 0, 1, 2 with the row and the
   column test, then the two diagonal tests. *)
RECURSIVE FindWinnerFrom(_, _)
FindWinnerFrom(board_state, i) ==
    IF i >= 3
    THEN DiagWinner(board_state)
    ELSE IF RowColWinner(board_state, i) # NoneVal
         THEN RowColWinner(board_state, i)
         ELSE FindWinnerFrom(board_state, i + 1)

find_winner(board) == FindWinnerFrom(board, 0)

(* start_game: the match that names the player whose turn it is. *)
MainPlayer(turn) ==
    CASE turn = "Plus" -> "Player 1"
      [] turn = "Circle" -> "Player 2"
      [] turn = "Empty" -> Panic

(* start_game: the match that alternates player_turn. *)
MainNextTurn(turn) ==
    CASE turn = "Plus" -> "Circle"
      [] turn = "Circle" -> "Plus"
      [] turn = "Empty" -> Panic

MainFresh ==
    [board |-> Board_new, player_turn |-> "Plus", pc |-> "AwaitingInput",
     last |-> [kind |-> "none"], announced |-> NoneVal]

MainPanicked(m) ==
    [m EXCEPT !.pc = "Panicked",
              !.last = [kind |-> "Panic", player |-> MainPlayer(m.player_turn)]]

(* One iteration of the loop of start_game on the text read_line left in
   player_input, already parsed; no iteration once the loop has ended. *)
start_game_turn(m, parsed) ==
    IF m.pc # "AwaitingInput" THEN m
    ELSE IF m.player_turn = "Empty" \/ parsed.tag = "Panic"
    THEN MainPanicked(m)
    ELSE IF parsed.tag = "Err"
    THEN IF parsed.kind = "InvalidFormat"
         THEN [m EXCEPT !.last = [kind |-> parsed.kind,
                                  player |-> MainPlayer(m.player_turn),
                                  msg |-> parsed.msg]]
         ELSE MainPanicked(m)
    ELSE IF main_is_valid_move(parsed.val, m.board).tag = "Err"
    THEN IF main_is_valid_move(parsed.val, m.board).kind = "InvalidFormat"
         THEN MainPanicked(m)
         ELSE [m EXCEPT !.last = [kind |-> main_is_valid_move(parsed.val, m.board).kind,
                                  player |-> MainPlayer(m.player_turn),
                                  player_move |-> parsed.val,
                                  msg |-> main_is_valid_move(parsed.val, m.board).msg]]
    ELSE IF ~ (parsed.val[1] \in Idx /\ parsed.val[2] \in Idx)
    THEN MainPanicked(m)
    ELSE LET board == place_on_board(m.player_turn, parsed.val, m.board)
             moved == [kind |-> "Accepted",
                       player |-> MainPlayer(m.player_turn),
                       player_move |-> parsed.val]
         IN IF find_winner(board) # NoneVal
            THEN [m EXCEPT !.board = board, !.last = moved, !.pc = "Finished",
                           !.announced = Some(MainPlayer(m.player_turn))]
            ELSE [m EXCEPT !.board = board, !.last = moved,
                           !.player_turn = MainNextTurn(m.player_turn)]

MainParseOf == [typed \in TypedLines |-> main_parse_player_move(read_line(typed))]

----------------------------------------------------------------------------
(* game::start.  A state is the program at the blocking read_line (board   *)
(* and prompt already printed) or after the loop.  One action is one       *)
(* iteration from the read to the next read or to the break.               *)

NoLast == [kind |-> "none"]

NoCall == [op |-> "none"]

InitialPlayer == "One"

GameFresh ==
    /\ player_turn = InitialPlayer
    /\ pc = "AwaitingInput"
    /\ shown = fmt(Board_new)
    /\ prompted = PlayerName(InitialPlayer)
    /\ announced = NoneVal
    /\ last = NoLast
    /\ accepted = {}
    /\ nAccepted = 0
    /\ stdin = "open"
    /\ main = MainFresh

Init ==
    /\ tiles = Board_new
    /\ call = NoCall
    /\ GameFresh

(* The error message written to stderr. *)
TryAgain(msg, p) == <<msg, PlayerName(p), "please try again!">>

(* RejectFormat in which the rejected player loses the turn. *)
RejectFormat_flip(typed) ==
    /\ pc = "AwaitingInput"
    /\ stdin = "open"
    /\ main' = start_game_turn(main, MainParseOf[typed])
    /\ ParseOf[typed].tag = "Err"
    /\ last' = [kind |-> ParseOf[typed].kind, player |-> player_turn,
                stderr |-> TryAgain(ParseOf[typed].msg, player_turn)]
    /\ player_turn' = NextPlayer(player_turn)
    /\ shown' = fmt(tiles)
    /\ prompted' = PlayerName(player_turn')
    /\ UNCHANGED <<tiles, pc, announced, accepted, nAccepted, stdin, call>>

(* parse_player_move fails: message, continue (a panic inside it ends
   the process). *)
RejectFormat(typed) ==
    /\ pc = "AwaitingInput"
    /\ stdin = "open"
    /\ main' = start_game_turn(main, MainParseOf[typed])
    /\ ParseOf[typed].tag # "Ok"
    /\ IF ParseOf[typed].tag = "Panic"
       THEN /\ pc' = "Panicked"
            /\ last' = [kind |-> "Panic", player |-> player_turn]
            /\ UNCHANGED <<shown, prompted>>
       ELSE /\ pc' = pc
            /\ last' = [kind |-> ParseOf[typed].kind, player |-> player_turn,
                        stderr |-> TryAgain(ParseOf[typed].msg, player_turn)]
            /\ shown' = fmt(tiles)
            /\ prompted' = PlayerName(player_turn)
    /\ UNCHANGED <<tiles, player_turn, announced, accepted, nAccepted, stdin, call>>

(* is_valid_move fails: message, continue. *)
RejectMove(typed) ==
    /\ pc = "AwaitingInput"
    /\ stdin = "open"
    /\ main' = start_game_turn(main, MainParseOf[typed])
    /\ ParseOf[typed].tag = "Ok"
    /\ is_valid_move(tiles, ParseOf[typed].val).tag = "Err"
    /\ last' = [kind |-> is_valid_move(tiles, ParseOf[typed].val).kind,
                player |-> player_turn,
                player_move |-> ParseOf[typed].val,
                stderr |-> TryAgain(is_valid_move(tiles, ParseOf[typed].val).msg,
                                    player_turn)]
    /\ shown' = fmt(tiles)
    /\ prompted' = PlayerName(player_turn)
    /\ UNCHANGED <<tiles, player_turn, pc, announced, accepted, nAccepted, stdin, call>>

(* The array index of place is inside the 3x3 grid. *)
InBounds(player_move) == player_move[1] \in Idx /\ player_move[2] \in Idx

(* The bookkeeping of an accepted move; target is what the cell held. *)
Record(typed) ==
    /\ last' = [kind |-> "Accepted", player |-> player_turn,
                player_move |-> ParseOf[typed].val,
                symbol |-> PlayerSymbol(player_turn),
                target |-> tiles[ParseOf[typed].val[1]][ParseOf[typed].val[2]],
                k |-> nAccepted + 1]
    /\ accepted' = accepted \cup {[player |-> player_turn,
                                    player_move |-> ParseOf[typed].val]}
    /\ nAccepted' = nAccepted + 1

(* The move is placed and the board has a winner: announce, break. *)
AcceptWin(typed) ==
    /\ pc = "AwaitingInput"
    /\ stdin = "open"
    /\ main' = start_game_turn(main, MainParseOf[typed])
    /\ ParseOf[typed].tag = "Ok"
    /\ is_valid_move(tiles, ParseOf[typed].val).tag = "Ok"
    /\ InBounds(ParseOf[typed].val)
    /\ tiles' = place(tiles, PlayerSymbol(player_turn), ParseOf[typed].val)
    /\ winner(tiles') # NoneVal
    /\ announced' = Some(player_turn)
    /\ pc' = "Finished"
    /\ Record(typed)
    /\ UNCHANGED <<player_turn, shown, prompted, stdin, call>>

(* AcceptContinue that leaves the loop once the board is full. *)
AcceptContinue_drawstop(typed) ==
    /\ pc = "AwaitingInput"
    /\ stdin = "open"
    /\ main' = start_game_turn(main, MainParseOf[typed])
    /\ ParseOf[typed].tag = "Ok"
    /\ is_valid_move(tiles, ParseOf[typed].val).tag = "Ok"
    /\ tiles' = place(tiles, PlayerSymbol(player_turn), ParseOf[typed].val)
    /\ winner(tiles') = NoneVal
    /\ player_turn' = NextPlayer(player_turn)
    /\ shown' = fmt(tiles')
    /\ prompted' = PlayerName(player_turn')
    /\ Record(typed)
    /\ pc' = IF \A r \in Idx, c \in Idx : tiles'[r][c] # "Empty"
             THEN "Finished" ELSE pc
    /\ UNCHANGED <<announced, stdin, call>>

(* The move is placed and there is no winner: flip the turn, loop.  The
   write in place panics when the index is outside the grid. *)
AcceptContinue(typed) ==
    /\ pc = "AwaitingInput"
    /\ stdin = "open"
    /\ main' = start_game_turn(main, MainParseOf[typed])
    /\ ParseOf[typed].tag = "Ok"
    /\ is_valid_move(tiles, ParseOf[typed].val).tag = "Ok"
    /\ IF InBounds(ParseOf[typed].val)
       THEN /\ tiles' = place(tiles, PlayerSymbol(player_turn), ParseOf[typed].val)
            /\ winner(tiles') = NoneVal
            /\ player_turn' = NextPlayer(player_turn)
            /\ shown' = fmt(tiles')
            /\ prompted' = PlayerName(player_turn')
            /\ Record(typed)
            /\ pc' = pc
       ELSE /\ pc' = "Panicked"
            /\ last' = [kind |-> "Panic", player |-> player_turn,
                        player_move |-> ParseOf[typed].val]
            /\ UNCHANGED <<tiles, player_turn, shown, prompted,
                           accepted, nAccepted>>
    /\ UNCHANGED <<announced, stdin, call>>

(* read_line returns Ok(0) at the end of input and leaves player_input
   empty; expect passes it on, parse_player_move("") fails, continue. *)
ReadEof ==
    /\ pc = "AwaitingInput"
    /\ stdin' = "eof"
    /\ main' = start_game_turn(main, main_parse_player_move(<<>>))
    /\ parse_player_move(<<>>).tag = "Err"
    /\ last' = [kind |-> parse_player_move(<<>>).kind, player |-> player_turn,
                stderr |-> TryAgain(parse_player_move(<<>>).msg, player_turn)]
    /\ shown' = fmt(tiles)
    /\ prompted' = PlayerName(player_turn)
    /\ UNCHANGED <<tiles, player_turn, pc, announced, accepted, nAccepted, call>>

Next ==
    \/ \E typed \in TypedLines : RejectFormat(typed)
    \/ \E typed \in TypedLines : RejectMove(typed)
    \/ \E typed \in TypedLines : AcceptWin(typed)
    \/ \E typed \in TypedLines : AcceptContinue(typed)
    \/ ReadEof

Spec == Init /\ [][Next]_vars

----------------------------------------------------------------------------
(* The board's operations called once on an arbitrary board (the tiles     *)
(* field is public, so every grid of symbols is a board a caller can hold).*)

BoardInit ==
    /\ tiles \in AllBoards
    /\ call = NoCall
    /\ GameFresh

CallIsValidMove ==
    /\ call = NoCall
    /\ \E r \in Coords, c \in Coords :
          call' = [op |-> "is_valid_move", before |-> tiles,
                   player_move |-> <<r, c>>,
                   ret |-> is_valid_move(tiles, <<r, c>>)]
    /\ UNCHANGED <<tiles, gameVars>>

CallPlace ==
    /\ call = NoCall
    /\ \E symbol \in Symbol, r \in Idx, c \in Idx :
          /\ tiles' = place(tiles, symbol, <<r, c>>)
          /\ call' = [op |-> "place", before |-> tiles, symbol |-> symbol,
                      player_move |-> <<r, c>>]
    /\ UNCHANGED gameVars

CallWinner ==
    /\ call = NoCall
    /\ call' = [op |-> "winner", before |-> tiles, ret |-> winner(tiles)]
    /\ UNCHANGED <<tiles, gameVars>>

(* format!("{}", board) *)
CallFmt ==
    /\ call = NoCall
    /\ call' = [op |-> "fmt", before |-> tiles, ret |-> fmt(tiles)]
    /\ UNCHANGED <<tiles, gameVars>>

BoardNext == CallIsValidMove \/ CallPlace \/ CallWinner \/ CallFmt

BoardSpec == BoardInit /\ [][BoardNext]_vars

----------------------------------------------------------------------------
(* The two parsers called once on an arbitrary string.                      *)

(* Longest string handed to a parser. *)
MaxLineLen == 5

(* One character of each class: two digits, the comma, white space, an
   ASCII letter, a two-byte letter. *)
Alphabet == {"0", "3", ",", " ", "a", "U+00E9"}

Strings == UNION {[1..n -> Alphabet] : n \in 0..MaxLineLen}

ParseInit ==
    /\ tiles = Board_new
    /\ call = NoCall
    /\ GameFresh

CallParse ==
    /\ call = NoCall
    /\ \E player_move \in Strings :
          call' = [op |-> "parse_player_move", input |-> player_move,
                   ret |-> parse_player_move(player_move)]
    /\ UNCHANGED <<tiles, gameVars>>

CallMainParse ==
    /\ call = NoCall
    /\ \E player_move \in Strings :
          call' = [op |-> "main_parse_player_move", input |-> player_move,
                   ret |-> main_parse_player_move(player_move)]
    /\ UNCHANGED <<tiles, gameVars>>

ParseNext == CallParse \/ CallMainParse

ParseSpec == ParseInit /\ [][ParseNext]_vars

----------------------------------------------------------------------------
(* Properties of the board operations.                                      *)

CallRow == call.player_move[1]

CallCol == call.player_move[2]

(* The eight lines of the grid: 3 rows, 3 columns, 2 diagonals. *)
EightLines ==
    {{<<i, 0>>, <<i, 1>>, <<i, 2>>} : i \in Idx}
    \cup {{<<0, i>>, <<1, i>>, <<2, i>>} : i \in Idx}
    \cup {{<<0, 0>>, <<1, 1>>, <<2, 2>>}, {<<0, 2>>, <<1, 1>>, <<2, 0>>}}

(* The line l of board b is fully matched by the mark m. *)
Matched(b, l, m) == \A p \in l : b[p[1]][p[2]] = m

MatchedLines(b) ==
    {l \in EightLines : Matched(b, l, "Plus") \/ Matched(b, l, "Circle")}

(* C1: is_valid_move returns Ok(true) iff row <= 2, column <= 2 and the
   cell is Empty; otherwise it returns an error; the board is unchanged. *)
C1_IsValidMoveIff ==
    call.op = "is_valid_move" =>
        /\ (call.ret = OkTrue) <=>
              (/\ CallRow <= 2
               /\ CallCol <= 2
               /\ call.before[CallRow][CallCol] = "Empty")
        /\ (call.ret # OkTrue => call.ret.tag = "Err")
        /\ tiles = call.before

C1_Witness ==
    /\ call.op = "is_valid_move"
    /\ call.ret = OkTrue
    /\ \E r \in Idx, c \in Idx : call.before[r][c] = "Plus"
    /\ \E r \in Idx, c \in Idx : call.before[r][c] = "Circle"

(* C2: a position whose row or column is greater than 2 fails with
   OutsideBoard whatever the cells hold, never FilledPosition or success. *)
C2_OutsideBoardFirst ==
    (call.op = "is_valid_move" /\ (CallRow > 2 \/ CallCol > 2)) =>
        /\ call.ret = OutsideBoard
        /\ call.ret # FilledPosition
        /\ call.ret # OkTrue

C2_Witness ==
    /\ call.op = "is_valid_move"
    /\ CallRow <= 2
    /\ CallCol > 2
    /\ \A r \in Idx, c \in Idx : call.before[r][c] # "Empty"
    /\ call.ret = OutsideBoard

(* C3: an in-range position whose cell is Plus or Circle fails with
   FilledPosition; after place(mark, p) with a non-Empty mark,
   is_valid_move(p) fails with FilledPosition. *)
C3_FilledPosition ==
    /\ (/\ call.op = "is_valid_move"
        /\ CallRow <= 2
        /\ CallCol <= 2
        /\ call.before[CallRow][CallCol] # "Empty")
           => call.ret = FilledPosition
    /\ (call.op = "place" /\ call.symbol # "Empty")
           => is_valid_move(tiles, call.player_move) = FilledPosition

C3_Witness ==
    /\ call.op = "is_valid_move"
    /\ CallRow <= 2
    /\ CallCol <= 2
    /\ call.before[CallRow][CallCol] = "Circle"
    /\ call.ret = FilledPosition

(* C4: after place(mark, p) with p in range, the cell at p holds mark and
   each of the other 8 cells holds the value it held before the call. *)
C4_PlaceFrame ==
    call.op = "place" =>
        \A r \in Idx, c \in Idx :
            tiles[r][c] = IF <<r, c>> = call.player_move
                          THEN call.symbol
                          ELSE call.before[r][c]

C4_Witness ==
    /\ call.op = "place"
    /\ call.symbol = "Plus"
    /\ call.before[CallRow][CallCol] = "Circle"
    /\ tiles[CallRow][CallCol] = "Plus"
    /\ \E r \in Idx, c \in Idx :
          <<r, c>> # call.player_move /\ tiles[r][c] = "Circle"

(* C5: winner() returns a mark m iff some of the eight lines is fully
   matched by a non-Empty mark, m is the mark of such a line, the result
   is none exactly when no line is matched, and it is never Empty. *)
C5_WinnerIffLine ==
    call.op = "winner" =>
        /\ (call.ret # NoneVal) <=> (MatchedLines(call.before) # {})
        /\ (call.ret # NoneVal =>
               /\ call.ret.tag = "Some"
               /\ call.ret.val \in {"Plus", "Circle"}
               /\ \E l \in EightLines : Matched(call.before, l, call.ret.val))
        /\ call.ret # Some("Empty")
        /\ tiles = call.before

C5_Witness ==
    /\ call.op = "winner"
    /\ call.ret = Some("Circle")
    /\ Matched(call.before, {<<0, 2>>, <<1, 1>>, <<2, 0>>}, "Circle")
    /\ Cardinality(MatchedLines(call.before)) = 1
    /\ Matched(call.before, {<<1, 0>>, <<1, 1>>, <<1, 2>>}, "Circle") = FALSE

----------------------------------------------------------------------------
(* Properties of the turn loop.                                             *)

Cells == Idx \X Idx

NonEmptyCells == {p \in Cells : tiles[p[1]][p[2]] # "Empty"}

Rejections == {"InvalidFormat", "OutsideBoard", "FilledPosition"}

(* The mark bound to a player: Plus for Player 1, Circle for Player 2. *)
MarkOf(p) == IF p = "One" THEN "Plus" ELSE "Circle"

C6_Cells ==
    /\ NonEmptyCells = {m.player_move : m \in accepted}
    /\ Cardinality(accepted) = nAccepted
    /\ Cardinality(NonEmptyCells) = nAccepted
    /\ \A m \in accepted :
          tiles[m.player_move[1]][m.player_move[2]] = MarkOf(m.player)

C6_Step ==
    /\ \A p \in Cells :
          tiles[p[1]][p[2]] # "Empty" => tiles'[p[1]][p[2]] = tiles[p[1]][p[2]]
    /\ nAccepted' # nAccepted =>
          /\ last'.kind = "Accepted"
          /\ last'.player_move \in Cells
          /\ tiles[last'.player_move[1]][last'.player_move[2]] = "Empty"

(* C6: in every state of the loop the non-Empty cells are exactly the
   positions of the accepted moves, one cell per move, each holding the
   mark of the player who moved; a non-Empty cell keeps its mark in every
   later state, and no accepted move targets a non-Empty cell. *)
C6_CellsAreAcceptedMoves == []C6_Cells /\ [][C6_Step]_vars

C6_Witness ==
    /\ nAccepted = 4
    /\ last.kind = "FilledPosition"
    /\ Cardinality(NonEmptyCells) = 4
    /\ \E m \in accepted : m.player = "Two" /\ m.player_move = last.player_move

(* C7: a line rejected as InvalidFormat, OutsideBoard or FilledPosition
   leaves the board and the active player as they were, and the next
   prompt is addressed to the same player. *)
C7_RejectionKeepsState ==
    [][last'.kind \in Rejections =>
          /\ tiles' = tiles
          /\ player_turn' = player_turn
          /\ last'.player = player_turn
          /\ pc' = "AwaitingInput"
          /\ prompted' = prompted
          /\ prompted' = (IF player_turn = "One" THEN "Player 1" ELSE "Player 2")
          /\ accepted' = accepted]_vars

C7_Witness ==
    /\ last.kind = "OutsideBoard"
    /\ last.player = "Two"
    /\ player_turn = "Two"
    /\ prompted = "Player 2"
    /\ nAccepted = 3

C8_Turns ==
    /\ nAccepted = 0 =>
          /\ player_turn = "One"
          /\ \A p \in Cells : tiles[p[1]][p[2]] = "Empty"
    /\ pc = "AwaitingInput" => (player_turn = "One" <=> nAccepted % 2 = 0)
    /\ last.kind = "Accepted" =>
          /\ last.k = nAccepted
          /\ last.k % 2 = 1 => (last.player = "One" /\ last.symbol = "Plus")
          /\ last.k % 2 = 0 => (last.player = "Two" /\ last.symbol = "Circle")
          /\ tiles[last.player_move[1]][last.player_move[2]] = last.symbol

C8_Step ==
    /\ (nAccepted' # nAccepted /\ pc' = "AwaitingInput")
          => player_turn' # player_turn
    /\ nAccepted' = nAccepted => player_turn' = player_turn
    /\ nAccepted' \in {nAccepted, nAccepted + 1}

(* C8: the game starts with Player 1 on an all-Empty board; the turn flips
   after every accepted move without a winner and only then, so the k-th
   accepted move is Player 1 placing Plus for odd k and Player 2 placing
   Circle for even k, whatever rejections occur in between. *)
C8_Alternation == []C8_Turns /\ [][C8_Step]_vars

C8_Witness ==
    /\ last.kind = "Accepted"
    /\ last.k = 4
    /\ last.player = "Two"
    /\ last.symbol = "Circle"
    /\ pc = "AwaitingInput"
    /\ player_turn = "One"

C9_Finish ==
    /\ pc = "Finished" <=> (last.kind = "Accepted" /\ winner(tiles) # NoneVal)
    /\ pc = "Finished" =>
          /\ announced = Some(last.player)
          /\ announced.val = "One" => winner(tiles) = Some("Plus")
          /\ announced.val = "Two" => winner(tiles) = Some("Circle")
    /\ pc # "Finished" => announced = NoneVal

(* C9: the loop is Finished exactly when winner() reported a mark right
   after an accepted move was placed; the announced player made that move
   and winner() on the final board is that player's mark; nothing is read
   or accepted afterwards. *)
C9_FinishedIffWinner == []C9_Finish /\ [][pc # "Finished"]_vars

C9_Witness ==
    /\ pc = "Finished"
    /\ announced = Some("Two")
    /\ winner(tiles) = Some("Circle")
    /\ last.kind = "Accepted"
    /\ last.player = "Two"

(* All nine cells are taken and no line is matched. *)
Draw ==
    /\ \A p \in Cells : tiles[p[1]][p[2]] # "Empty"
    /\ winner(tiles) = NoneVal

C10_DrawState ==
    Draw =>
        /\ pc = "AwaitingInput"
        /\ \A p \in Cells : is_valid_move(tiles, p) = FilledPosition
        /\ \A typed \in TypedLines :
              /\ stdin = "open" =>
                    ENABLED (RejectFormat(typed) \/ RejectMove(typed))
              /\ ~ ENABLED (AcceptWin(typed) \/ AcceptContinue(typed))

C10_DrawStep ==
    Draw =>
        /\ tiles' = tiles
        /\ player_turn' = player_turn
        /\ pc' = "AwaitingInput"
        /\ last'.kind \in Rejections
        /\ nAccepted' = nAccepted

(* C10: once all 9 cells are non-Empty with no winner, the loop never
   reaches Finished: every in-range position fails with FilledPosition,
   every further line is rejected, the board and the active player never
   change, and the loop goes on reading. *)
C10_DrawLoopsForever == []C10_DrawState /\ [][C10_DrawStep]_vars

C10_Witness ==
    /\ Draw
    /\ nAccepted = 9
    /\ pc = "AwaitingInput"
    /\ last.kind = "FilledPosition"
    /\ player_turn = "Two"

(* C11: once the blocking read can no longer produce a line (end of
   input), the process ends instead of going on prompting. *)
C11_StopsAtEndOfInput == stdin = "eof" => pc # "AwaitingInput"

C12_Messages ==
    last.kind \in Rejections =>
        /\ pc = "AwaitingInput"
        /\ Len(last.stderr) = 3
        /\ last.stderr[1] =
              (CASE last.kind = "InvalidFormat" -> "Invalid format"
                 [] last.kind = "OutsideBoard" ->
                      "The move is invalid because it is outside the board."
                 [] last.kind = "FilledPosition" ->
                      "The position is already filled.")
        /\ last.stderr[2] = (IF last.player = "One" THEN "Player 1" ELSE "Player 2")
        /\ prompted = last.stderr[2]

(* C12: no input line crashes the loop: parsing never panics, place is
   invoked only with both coordinates in [0,2] on an Empty cell, and each
   of the three error kinds becomes a message and a re-prompt. *)
C12_NoCrash ==
    /\ pc \in {"AwaitingInput", "Finished"}
    /\ last.kind \in {"none", "Accepted"} \cup Rejections
    /\ \A typed \in TypedLines : ParseOf[typed].tag \in {"Ok", "Err"}
    /\ last.kind = "Accepted" =>
          /\ last.player_move \in Cells
          /\ last.target = "Empty"
    /\ C12_Messages

C12_Witness ==
    /\ last.kind = "Accepted"
    /\ last.player_move = <<2, 2>>
    /\ last.target = "Empty"
    /\ nAccepted = 9
    /\ pc = "AwaitingInput"

(* C13: after every turn, accepted or rejected, the winning move
   included, the board as it is after that turn has been rendered. *)
C13_BoardShownAfterEveryTurn == last.kind # "none" => shown = fmt(tiles)

----------------------------------------------------------------------------
(* Properties of the parsers.                                               *)

Blank == {" ", "\t", "\n", "\r"}

AsciiDigits == {"0", "1", "2", "3", "4", "5", "6", "7", "8", "9"}

DigitValue(ch) == CHOOSE n \in 0..9 : DigitChars[n + 1] = ch

CommaAt(str) == {i \in 1..Len(str) : str[i] = ","}

(* The characters of str[lo..hi] that are not white space. *)
Inked(str, lo, hi) == {i \in lo..hi : str[i] \notin Blank}

(* Exactly one comma; left and right of it exactly one character besides
   surrounding white space, and that character is an ASCII digit. *)
WellFormed(str) ==
    /\ Cardinality(CommaAt(str)) = 1
    /\ LET i == CHOOSE k \in CommaAt(str) : TRUE
       IN /\ Cardinality(Inked(str, 1, i - 1)) = 1
          /\ Cardinality(Inked(str, i + 1, Len(str))) = 1
          /\ \A k \in Inked(str, 1, Len(str)) \ {i} : str[k] \in AsciiDigits

MoveOf(str) ==
    LET i == CHOOSE k \in CommaAt(str) : TRUE
    IN <<DigitValue(str[CHOOSE k \in Inked(str, 1, i - 1) : TRUE]),
         DigitValue(str[CHOOSE k \in Inked(str, i + 1, Len(str)) : TRUE])>>

(* C14: parse_player_move succeeds iff the line splits on commas into
   exactly two segments, each of which trims to one ASCII digit; the
   result is then (first digit, second digit); every other line fails
   with InvalidFormat. *)
C14_ParseIffWellFormed ==
    call.op = "parse_player_move" =>
        IF WellFormed(call.input)
        THEN call.ret = [tag |-> "Ok", val |-> MoveOf(call.input)]
        ELSE call.ret.tag = "Err" /\ call.ret.kind = "InvalidFormat"

C14_Witness ==
    /\ call.op = "parse_player_move"
    /\ call.input = <<" ", "3", " ", ",", "0">>
    /\ call.ret = [tag |-> "Ok", val |-> <<3, 0>>]

(* C15: every parse failure, whatever its cause, carries the message text
   "Invalid format". *)
C15_OneMessage ==
    (/\ call.op \in {"parse_player_move", "main_parse_player_move"}
     /\ call.ret.tag = "Err")
        => call.ret.msg = "Invalid format"

----------------------------------------------------------------------------
(* Properties of the lines of the boards the loop reaches.                  *)

(* The mark on the first cell of a line. *)
LineMark(b, l) == LET p == CHOOSE q \in l : TRUE IN b[p[1]][p[2]]

(* C16 as stated: at most one of the eight lines is fully matched. *)
C16_AtMostOneLine == Cardinality(MatchedLines(tiles)) <= 1

(* C16, amended: at most two of the eight lines are fully matched; two
   matched lines hold the same mark and cross in one cell, and winner()
   is the mark of every matched line, so it never chooses between marks. *)
C16_OneWinningMark ==
    /\ Cardinality(MatchedLines(tiles)) <= 2
    /\ \A l1 \in MatchedLines(tiles), l2 \in MatchedLines(tiles) :
          /\ LineMark(tiles, l1) = LineMark(tiles, l2)
          /\ l1 # l2 => Cardinality(l1 \cap l2) = 1
    /\ \A l \in MatchedLines(tiles) : winner(tiles) = Some(LineMark(tiles, l))

C16_Witness ==
    /\ pc = "Finished"
    /\ Cardinality(MatchedLines(tiles)) = 2
    /\ winner(tiles) = Some("Plus")
    /\ nAccepted = 9

----------------------------------------------------------------------------
(* Properties of the rendering.                                             *)

Glyph(sym) == IF sym = "Empty" THEN "-" ELSE IF sym = "Plus" THEN "+" ELSE "o"

(* "| a | b | c |" for row r of board b. *)
LineText(b, r) ==
    <<"|", " ", Glyph(b[r][0]), " ", "|", " ", Glyph(b[r][1]), " ", "|", " ",
      Glyph(b[r][2]), " ", "|">>

(* The positions of the newlines of a text. *)
Newlines(text) == {i \in 1..Len(text) : text[i] = "\n"}

(* The board read back from a rendering: the glyph of cell (r, c) is
   character 14 r + 4 c + 3 of the text. *)
ReadBack(text) ==
    [r \in Idx |-> [c \in Idx |->
        LET g == text[14 * r + 4 * c + 3]
        IN IF g = "-" THEN "Empty" ELSE IF g = "+" THEN "Plus" ELSE "Circle"]]

(* C17: the rendering is 3 lines separated by newlines, line r being
   "| a | b | c |" with the glyphs of row r under Empty "-", Plus "+",
   Circle "o"; the empty board gives three lines "| - | - | - |"; two
   boards with the same text are equal (the text reads back to the board). *)
C17_Rendering ==
    call.op = "fmt" =>
        /\ call.ret = LineText(call.before, 0) \o <<"\n">>
                       \o LineText(call.before, 1) \o <<"\n">>
                       \o LineText(call.before, 2)
        /\ Newlines(call.ret) = {14, 28}
        /\ Len(call.ret) = 41
        /\ call.before = Board_new =>
              \A r \in Idx : SubSeq(call.ret, 14 * r + 1, 14 * r + 13)
                    = <<"|", " ", "-", " ", "|", " ", "-", " ", "|", " ",
                        "-", " ", "|">>
        /\ ReadBack(call.ret) = call.before

C17_Witness ==
    /\ call.op = "fmt"
    /\ call.before[0][0] = "Circle"
    /\ call.before[1][2] = "Plus"
    /\ call.before[2][1] = "Empty"
    /\ SubSeq(call.ret, 1, 13) \in
          {<<"|", " ", "o", " ", "|", " ", g1, " ", "|", " ", g2, " ", "|">> :
              g1 \in {"-", "+", "o"}, g2 \in {"-", "+", "o"}}

----------------------------------------------------------------------------
(* Properties of the scan order of winner.                                  *)

Row(i) == {<<i, 0>>, <<i, 1>>, <<i, 2>>}

Col(i) == {<<0, i>>, <<1, i>>, <<2, i>>}

(* Row 0, column 0, row 1, column 1, row 2, column 2, main diagonal,
   anti-diagonal. *)
ScanOrder ==
    <<Row(0), Col(0), Row(1), Col(1), Row(2), Col(2),
      {<<0, 0>>, <<1, 1>>, <<2, 2>>}, {<<0, 2>>, <<1, 1>>, <<2, 0>>}>>

MatchedAt(b) == {i \in 1..8 : ScanOrder[i] \in MatchedLines(b)}

(* C18: on every board, also one with matched lines of different marks,
   winner() is the mark of the first fully matched non-Empty line in the
   order row 0, column 0, row 1, column 1, row 2, column 2, main
   diagonal, anti-diagonal. *)
C18_FirstInScanOrder ==
    call.op = "winner" =>
        IF MatchedAt(call.before) = {}
        THEN call.ret = NoneVal
        ELSE LET first == CHOOSE i \in MatchedAt(call.before) :
                              \A j \in MatchedAt(call.before) : i <= j
             IN call.ret = Some(LineMark(call.before, ScanOrder[first]))

C18_Witness ==
    /\ call.op = "winner"
    /\ Matched(call.before, Col(0), "Circle")
    /\ Matched(call.before, Col(2), "Plus")
    /\ call.ret = Some("Circle")

----------------------------------------------------------------------------
(* Counting properties of the boards the loop reaches.                      *)

Count(sym) == Cardinality({p \in Cells : tiles[p[1]][p[2]] = sym})

(* C19: Plus cells minus Circle cells is 0 or 1; while the loop awaits
   input Player 1 is active exactly when the counts are equal and Player 2
   exactly when Plus leads by one; no accepted move writes Empty. *)
C19_Counts ==
    /\ Count("Plus") - Count("Circle") \in {0, 1}
    /\ pc = "AwaitingInput" =>
          /\ player_turn = "One" <=> Count("Plus") = Count("Circle")
          /\ player_turn = "Two" <=> Count("Plus") = Count("Circle") + 1
    /\ last.kind = "Accepted" =>
          /\ last.symbol # "Empty"
          /\ tiles[last.player_move[1]][last.player_move[2]] # "Empty"
    /\ Count("Plus") + Count("Circle") = nAccepted

C19_Witness ==
    /\ pc = "AwaitingInput"
    /\ player_turn = "Two"
    /\ Count("Plus") = 4
    /\ Count("Circle") = 3
    /\ last.kind = "Accepted"

(* C20: Plus and Circle never both hold a fully matched line; while the
   loop awaits input no line is fully matched; in Finished every fully
   matched line holds the mark of the player who made the last accepted
   move. *)
C20_Lines ==
    /\ ~ (/\ \E l \in EightLines : Matched(tiles, l, "Plus")
          /\ \E l \in EightLines : Matched(tiles, l, "Circle"))
    /\ pc = "AwaitingInput" => MatchedLines(tiles) = {}
    /\ pc = "Finished" =>
          /\ last.kind = "Accepted"
          /\ MatchedLines(tiles) # {}
          /\ \A l \in MatchedLines(tiles) :
                /\ last.player = "One" => Matched(tiles, l, "Plus")
                /\ last.player = "Two" => Matched(tiles, l, "Circle")

C20_Witness ==
    /\ pc = "Finished"
    /\ last.player = "Two"
    /\ Matched(tiles, {<<0, 1>>, <<1, 1>>, <<2, 1>>}, "Circle")
    /\ nAccepted = 8

----------------------------------------------------------------------------
(* The length of a game.                                                    *)

C21_Length ==
    /\ pc = "Finished" => nAccepted >= 5
    /\ nAccepted <= 9
    /\ nAccepted = 9 =>
          \/ pc = "Finished"
          \/ /\ pc = "AwaitingInput"
             /\ \A p \in Cells : tiles[p[1]][p[2]] # "Empty"
             /\ \A typed \in TypedLines :
                   ~ ENABLED (AcceptWin(typed) \/ AcceptContinue(typed))

(* C21: the game cannot finish before the 5th accepted move; at most 9
   moves are ever accepted; after the 9th the loop is Finished or at the
   full board where no further move is accepted. *)
C21_GameLength == []C21_Length /\ [][nAccepted = 9 => nAccepted' = 9]_vars

C21_Witness ==
    /\ pc = "Finished"
    /\ nAccepted = 5
    /\ last.kind = "Accepted"
    /\ last.player = "One"

----------------------------------------------------------------------------
(* The two loops side by side.                                              *)

(* C22: start_game of main.rs and game::start, fed the same input lines
   from the initial state, hold after every line the same board and the
   same active player, took the same accept/reject decision with the same
   error kind, and finish at the same line with the same announced
   winner. *)
C22_LoopsAgree ==
    /\ main.board = tiles
    /\ main.pc = pc
    /\ main.player_turn = (IF player_turn = "One" THEN "Plus" ELSE "Circle")
    /\ main.last.kind = last.kind
    /\ last.kind # "none" => main.last.player = PlayerName(last.player)
    /\ last.kind \in {"Accepted", "OutsideBoard", "FilledPosition"} =>
          main.last.player_move = last.player_move
    /\ main.announced = (IF announced = NoneVal THEN NoneVal
                         ELSE Some(PlayerName(announced.val)))

C22_Witness ==
    /\ pc = "Finished"
    /\ main.pc = "Finished"
    /\ main.announced = Some("Player 2")
    /\ announced = Some("Two")
    /\ main.board = tiles
    /\ nAccepted = 6

====
